---- MODULE Spec2Model ----
(***************************************************************************)
(* CEC test tool: the rate limiter and the persistent cec-client           *)
(* connection of cec_control.py, called from the server's request threads  *)
(* and its command monitor thread, the polling loop and the lock file of   *)
(* gpio_handler.py, the start-up and gated request handlers of server.py   *)
(* with the display lock of oled_display.py, and the trigger files the     *)
(* GPIO handler writes and the server's monitor thread reads and removes.  *)
(*                                                                         *)
(* Time is counted in whole seconds (time.time()).  A pause shorter than   *)
(* a second (time.sleep(0.1)) is a step across which the clock may or may  *)
(* not advance.  The rate limiter keeps the clock value it read; for a     *)
(* call of execute_cec_command the model keeps time.time() - start_time    *)
(* (elapsed) and what is left of the time.sleep(2) (warmup_left), which is *)
(* all the code ever uses of the two.                                      *)
(***************************************************************************)
EXTENDS Integers, Sequences, FiniteSets, TLC

\* ------------------------------------------------------------------ bounds
MaxTime == 5         \* the clock stops advancing here
MaxAttempts == 3     \* calls of is_rate_limited in one behaviour
MaxCalls == 2        \* calls of execute_cec_command in one behaviour
MaxSpawns == 2       \* cec-client processes started in one behaviour
MaxOut == 2          \* lines the cec-client processes write in one behaviour
MaxSamples == 6      \* samples the polling loop takes of each pin
MaxPinSamples == 4   \* the same where the pin levels are part of the state
MaxInstances == 3    \* gpio_handler instances started in one behaviour
MaxPresses == 2      \* trigger files the GPIO handler writes in one behaviour

\* ------------------------------------------------------- program constants
COMMAND_COOLDOWN == 2    \* cec_control.py: COMMAND_COOLDOWN = 2.0 seconds
EXEC_TIMEOUT == 8        \* cec_control.py: while time.time() - start_time < 8
WARMUP == 2              \* cec_control.py: time.sleep(2) after Popen
None == 0                \* cec_process = None; process handles are 1, 2, ...
BACKUP_TIMEOUT == 3      \* gpio_handler.py: subprocess.run(..., timeout=3)
SAMPLES_PER_SECOND == 10 \* gpio_handler.py: time.sleep(0.1) in the loop

\* time.time() at start-up: the epoch clock is far beyond the cooldown, so
\* the first comparison against last_command_time = 0 never rate-limits.
BootTime == COMMAND_COOLDOWN

\* The server's threads that call into cec_control: a Flask request handler
\* and the command monitor thread.
Threads == {"api", "monitor"}

\* The single caller used for sequences of non-overlapping calls.
SeqThreads == {"api"}

\* Lines the cec-client process can write; a line is a completion marker
\* when it contains "CEC bus information" or "TRAFFIC:".
Lines == {"power status: on", "CEC bus information", "TRAFFIC: [ 1] << 10:04"}

\* The command each thread submits: the request handler serves /api/status
\* (get_power_status), the monitor thread a power-on trigger file (power_on).
CommandOf(t) == IF t = "api" THEN "pow" ELSE "on 0"

VARIABLES
  now,                 \* time.time(), in seconds
  calls,               \* number of calls the threads have started so far
  pc,                  \* pc[t]: position of thread t in the code
  \* ---- is_rate_limited
  last_command_time,   \* cec_control.last_command_time
  current_time,        \* current_time[t]: the local of is_rate_limited
  limited,             \* limited[t]: value returned by is_rate_limited
  lct_at_call,         \* history: last_command_time when t's call began
  accepted,            \* history: timestamps of the accepted calls, in order
  \* ---- initialize_cec / execute_cec_command
  cec_process,         \* cec_control.cec_process: None or a process handle
  alive,               \* handles of the cec-client processes still running
  spawned,             \* number of cec-client processes started so far
  stdout,              \* stdout[p]: lines written by p and not yet read
  written,             \* number of lines the processes have written so far
  stdin,               \* stdin[p]: commands written to p
  age,                 \* age[p]: seconds since p was started, up to the warm-up delay
  command,             \* command[t]: the argument of execute_cec_command
  on_error,            \* on_error[t]: initialize_cec was called from the except clause
  warmup_left,         \* warmup_left[t]: what is left of the time.sleep(2) of initialize_cec
  response,            \* response[t]: the local of execute_cec_command
  elapsed,             \* elapsed[t]: time.time() - start_time in t's call, up to the bound
  result,              \* result[t]: value returned by execute_cec_command
  exit_by,             \* exit_by[t]: how the call left the wait loop
  consumed,            \* history: lines t's call took from the process
  writes,              \* history: number of times t's call wrote its command
  attempts,            \* history: Popen attempts made in t's call
  respawns,            \* history: those of them made from the except clause
  failed,              \* history: the Popen of line 50's initialize_cec raised
  found_live,          \* history: a live process existed at the test of line 50's initialize_cec
  prev_exit,           \* history: how t's previous call ended
  stale,               \* history: unread lines that were in the pipe at t's write
  got_stale,           \* history: t's call under way has read such a line
  \* ---- gpio_handler.py
  gpc,                 \* position of the GPIO handler process
  last_on_high, last_off_high,
  on_is_high, off_is_high,
  on_count, off_count,
  on_file, off_file,   \* trigger files: None or the timestamp written
  device,              \* commands sent to the CEC device by the handler's one-shot cec-client
  on_samples, off_samples, \* history: levels read from each pin, in order
  on_events, off_events,   \* history: indexes of the samples that emitted a press
  blocked,             \* seconds the running backup command has lasted
  read_errors,         \* history: GPIO.input calls of the loop that raised
  pin,                 \* pin[b]: the level at the input of button b
  stable_for,          \* sampling periods pin b has kept its level, up to 2
  rise_at,             \* history: samples taken before pin b last went high
  missed,              \* history: buttons with a pulse that ended uncounted
  \* ---- gpio_handler.py lock file
  gh,                  \* gh[i]: position of gpio_handler instance i
  lock_file_handle,    \* lock_file_handle[i]: the inode instance i has open
  lock_file,           \* the inode the path LOCK_FILE names
  flock_holder,        \* flock_holder[n]: the instance holding the flock on inode n
  inodes,              \* inodes created so far
  \* ---- server.py start-up and oled_display.py
  mpc,                 \* position of the main thread in server.py
  hpc,                 \* hpc[t]: position of thread t in its request handler
  oled_initialized,    \* server.oled_initialized
  display_lock,        \* the thread holding oled_display.display_lock
  \* ---- the trigger-file handoff: gpio_handler.py 148-174, server.py 106-154
  cfile,               \* the button whose file check_command_files is at
  timestamp,           \* check_command_files: the timestamp it read
  last_processed,      \* server.last_processed
  wfile,               \* the button whose file the handler has open, or "none"
  detached,            \* the file the handler has open was removed meanwhile
  unread,              \* history: file b holds a timestamp not read so far
  lost,                \* history: buttons with a timestamp gone unread
  presses              \* history: trigger files opened so far

limVars == <<last_command_time, current_time, limited, lct_at_call, accepted>>
procVars == <<cec_process, alive, spawned, stdout, written, stdin, age>>
callVars == <<command, on_error, warmup_left, response, elapsed, result, exit_by,
              consumed, writes>>
histVars == <<attempts, respawns, failed, found_live, prev_exit, stale,
              got_stale>>
execVars == <<procVars, callVars, histVars>>
gpioVars == <<gpc, last_on_high, last_off_high, on_is_high, off_is_high,
              on_count, off_count, on_file, off_file, device,
              on_samples, off_samples, on_events, off_events, blocked>>
pinVars == <<pin, stable_for, rise_at, missed>>
lockVars == <<gh, lock_file_handle, lock_file, flock_holder, inodes>>
srvVars == <<mpc, hpc, oled_initialized, display_lock>>
hoVars == <<cfile, timestamp, last_processed, wfile, detached, unread, lost,
            presses>>
extVars == <<read_errors, pinVars, lockVars, srvVars, hoVars>>
vars == <<now, calls, pc, limVars, execVars, gpioVars, extVars>>

Procs == 1..MaxSpawns

\* The two buttons of gpio_handler.py (POWER_ON_PIN, POWER_OFF_PIN).
Buttons == {"on", "off"}

\* rise_at of a pin that has not gone high since the loop started.
NoRise == -1

\* gpio_handler processes that may be started, and the inodes they create.
Instances == 1..MaxInstances
Inodes == 1..MaxInstances

\* ------------------------------------------------------------------- Init
\* The state once the modules are loaded.  Loading cec_control runs
\* initialize_cec(): either cec-client started and its warm-up has passed, or
\* Popen raised and cec_process is still None.
Init ==
  /\ now = BootTime
  /\ calls = 0
  /\ pc = [t \in Threads |-> "idle"]
  /\ last_command_time = 0
  /\ current_time = [t \in Threads |-> 0]
  /\ limited = [t \in Threads |-> FALSE]
  /\ lct_at_call = [t \in Threads |-> 0]
  /\ accepted = <<>>
  /\ \/ cec_process = None /\ alive = {} /\ spawned = 0
     \/ cec_process = 1 /\ alive = {1} /\ spawned = 1
  /\ stdout = [p \in Procs |-> <<>>]
  /\ written = 0
  /\ stdin = [p \in Procs |-> <<>>]
  /\ age = [p \in Procs |-> WARMUP]
  /\ command = [t \in Threads |-> ""]
  /\ on_error = [t \in Threads |-> FALSE]
  /\ warmup_left = [t \in Threads |-> 0]
  /\ response = [t \in Threads |-> <<>>]
  /\ elapsed = [t \in Threads |-> 0]
  /\ result = [t \in Threads |-> <<>>]
  /\ exit_by = [t \in Threads |-> "none"]
  /\ consumed = [t \in Threads |-> <<>>]
  /\ writes = [t \in Threads |-> 0]
  /\ attempts = [t \in Threads |-> 0]
  /\ respawns = [t \in Threads |-> 0]
  /\ failed = [t \in Threads |-> FALSE]
  /\ found_live = [t \in Threads |-> FALSE]
  /\ prev_exit = [t \in Threads |-> "none"]
  /\ stale = [t \in Threads |-> 0]
  /\ got_stale = [t \in Threads |-> FALSE]
  /\ gpc = "start"
  /\ last_on_high = FALSE /\ last_off_high = FALSE
  /\ on_is_high = FALSE /\ off_is_high = FALSE
  /\ on_count = 0 /\ off_count = 0
  /\ on_file = None /\ off_file = None
  /\ device = {}
  /\ on_samples = <<>> /\ off_samples = <<>>
  /\ on_events = {} /\ off_events = {}
  /\ blocked = 0
  /\ read_errors = 0
  /\ pin = [b \in Buttons |-> FALSE]
  /\ stable_for = [b \in Buttons |-> 2]
  /\ rise_at = [b \in Buttons |-> NoRise]
  /\ missed = {}
  /\ gh = [i \in Instances |-> "absent"]
  /\ lock_file_handle = [i \in Instances |-> None]
  /\ lock_file = None
  /\ flock_holder = [n \in Inodes |-> None]
  /\ inodes = 0
  /\ mpc = "boot"
  /\ hpc = [t \in Threads |-> "idle"]
  /\ cfile = "on" /\ timestamp = None
  /\ last_processed = [b \in Buttons |-> 0]
  /\ wfile = "none" /\ detached = FALSE
  /\ unread = [b \in Buttons |-> FALSE]
  /\ lost = {}
  /\ presses = 0
  /\ oled_initialized = FALSE
  /\ display_lock = "free"

\* ------------------------------------------------------------------ clock
Tick ==
  /\ now < MaxTime
  /\ now' = now + 1
  /\ UNCHANGED <<calls, pc, limVars, execVars, gpioVars, extVars>>

\* ------------------------------------------------- is_rate_limited (79-87)
\* A thread enters is_rate_limited.
RateCall(t) ==
  /\ pc[t] \in {"idle", "rl_done"}
  /\ calls < MaxAttempts
  /\ calls' = calls + 1
  /\ pc' = [pc EXCEPT ![t] = "rl_time"]
  /\ lct_at_call' = [lct_at_call EXCEPT ![t] = last_command_time]
  /\ UNCHANGED <<now, last_command_time, current_time, limited, accepted,
                 execVars, gpioVars, extVars>>

\* line 82: current_time = time.time()
RateReadClock(t) ==
  /\ pc[t] = "rl_time"
  /\ current_time' = [current_time EXCEPT ![t] = now]
  /\ pc' = [pc EXCEPT ![t] = "rl_test"]
  /\ UNCHANGED <<now, calls, last_command_time, limited, lct_at_call, accepted,
                 execVars, gpioVars, extVars>>

\* Variant: the comparison with <= in place of <.
TooSoonInclusive(cur, last) == cur - last <= COMMAND_COOLDOWN

\* line 83: the comparison against the shared last_command_time
TooSoon(cur, last) == cur - last < COMMAND_COOLDOWN

\* lines 83-85: the test; a rate-limited call returns True here
RateTest(t) ==
  /\ pc[t] = "rl_test"
  /\ IF TooSoon(current_time[t], last_command_time)
       THEN /\ limited' = [limited EXCEPT ![t] = TRUE]
            /\ pc' = [pc EXCEPT ![t] = "rl_done"]
       ELSE /\ pc' = [pc EXCEPT ![t] = "rl_set"]
            /\ UNCHANGED limited
  /\ UNCHANGED <<now, calls, last_command_time, current_time, lct_at_call,
                 accepted, execVars, gpioVars, extVars>>

\* lines 86-87: last_command_time = current_time; return False
RateAccept(t) ==
  /\ pc[t] = "rl_set"
  /\ last_command_time' = current_time[t]
  /\ limited' = [limited EXCEPT ![t] = FALSE]
  /\ accepted' = Append(accepted, current_time[t])
  /\ pc' = [pc EXCEPT ![t] = "rl_done"]
  /\ UNCHANGED <<now, calls, current_time, lct_at_call, execVars, gpioVars, extVars>>

RateStep(t) == RateCall(t) \/ RateReadClock(t) \/ RateTest(t) \/ RateAccept(t)

\* Concurrent callers of is_rate_limited.
NextLimiter == Tick \/ \E t \in Threads : RateStep(t)
SpecLimiter == Init /\ [][NextLimiter]_vars

\* One caller: the calls never overlap.
NextLimiterSeq == Tick \/ \E t \in SeqThreads : RateStep(t)
SpecLimiterSeq == Init /\ [][NextLimiterSeq]_vars

\* One second passes for the calls of execute_cec_command under way: the time
\* since start_time grows (it is compared with the bound only) and what is
\* left of a warm-up sleep shrinks.
Waiting(t) == pc[t] \in {"loop", "read", "sleep"}

Elapse ==
  /\ \E t \in Threads : \/ (Waiting(t) /\ elapsed[t] < EXEC_TIMEOUT)
                         \/ (pc[t] = "warmup" /\ warmup_left[t] > 0)
  /\ elapsed' = [t \in Threads |->
                  IF Waiting(t) /\ elapsed[t] < EXEC_TIMEOUT
                    THEN elapsed[t] + 1 ELSE elapsed[t]]
  /\ warmup_left' = [t \in Threads |->
                      IF pc[t] = "warmup" /\ warmup_left[t] > 0
                        THEN warmup_left[t] - 1 ELSE warmup_left[t]]
  /\ age' = [p \in Procs |->
              IF p <= spawned /\ age[p] < WARMUP THEN age[p] + 1 ELSE age[p]]
  /\ UNCHANGED <<now, calls, pc, limVars, cec_process, alive, spawned, stdout,
                 written, stdin, command, on_error, response, result, exit_by,
                 consumed, writes, histVars, gpioVars, extVars>>

\* ------------------------------------------- the cec-client process (stub)
\* The external process writes a line to its stdout at any time it likes.
ProcOutput(p) ==
  /\ p \in alive
  /\ written < MaxOut
  /\ \E line \in Lines : stdout' = [stdout EXCEPT ![p] = Append(@, line)]
  /\ written' = written + 1
  /\ UNCHANGED <<now, calls, pc, limVars, cec_process, alive, spawned, stdin,
                 age, callVars, histVars, gpioVars, extVars>>

\* The external process exits; what it wrote stays readable in the pipe.
ProcExit(p) ==
  /\ p \in alive
  /\ alive' = alive \ {p}
  /\ UNCHANGED <<now, calls, pc, limVars, cec_process, spawned, stdout, written,
                 stdin, age, callVars, histVars, gpioVars, extVars>>

\* --------------------------------------------------- initialize_cec (29-44)
\* line 33: cec_process is None or cec_process.poll() is not None
\* Variant: the test without poll(), which takes an exited process for a
\* connection.
NoProcessObject == cec_process = None

NoLiveProcess == cec_process = None \/ cec_process \notin alive

\* What follows a return of initialize_cec: True sends the caller on to the
\* write (line 53), False to "Failed to initialize CEC client" (line 51); in
\* the except clause (line 76) the value is ignored and line 77 returns.
\* Variant: the except clause sends the command again after a successful
\* reconnection.
AfterInitResend(t, ok) ==
  IF ok THEN "write" ELSE IF on_error[t] THEN "error_ret" ELSE "init_failed"

\* Variant: line 50 ignores the value initialize_cec returns.
AfterInitUnchecked(t, ok) ==
  IF on_error[t] THEN "error_ret" ELSE "write"

AfterInit(t, ok) ==
  IF on_error[t] THEN "error_ret" ELSE IF ok THEN "write" ELSE "init_failed"

\* line 33: the test.  With a live process initialize_cec returns True.
InitCheck(t) ==
  /\ pc[t] = "init"
  /\ pc' = [pc EXCEPT ![t] = IF NoLiveProcess THEN "popen" ELSE AfterInit(t, TRUE)]
  /\ found_live' = [found_live EXCEPT ![t] =
                      IF on_error[t] THEN @ ELSE cec_process \in alive]
  /\ UNCHANGED <<now, calls, limVars, procVars, callVars, attempts, respawns,
                 failed, prev_exit, stale, got_stale, gpioVars, extVars>>

\* lines 35-39: subprocess.Popen starts a process and binds cec_process ...
InitPopen(t) ==
  /\ pc[t] = "popen"
  /\ spawned < MaxSpawns
  /\ spawned' = spawned + 1
  /\ cec_process' = spawned + 1
  /\ alive' = alive \cup {spawned + 1}
  /\ age' = [age EXCEPT ![spawned + 1] = 0]
  /\ stale' = [u \in Threads |-> 0]
  /\ warmup_left' = [warmup_left EXCEPT ![t] = WARMUP]
  /\ attempts' = [attempts EXCEPT ![t] = @ + 1]
  /\ respawns' = [respawns EXCEPT ![t] = IF on_error[t] THEN @ + 1 ELSE @]
  /\ pc' = [pc EXCEPT ![t] = "warmup"]
  /\ UNCHANGED <<now, calls, limVars, stdout, written, stdin, command, on_error,
                 response, elapsed, result, exit_by, consumed, writes,
                 failed, found_live, prev_exit, got_stale, gpioVars, extVars>>

\* ... or raises: lines 42-44 log the error and return False.
InitPopenFails(t) ==
  /\ pc[t] = "popen"
  /\ pc' = [pc EXCEPT ![t] = AfterInit(t, FALSE)]
  /\ attempts' = [attempts EXCEPT ![t] = @ + 1]
  /\ respawns' = [respawns EXCEPT ![t] = IF on_error[t] THEN @ + 1 ELSE @]
  /\ failed' = [failed EXCEPT ![t] = IF on_error[t] THEN @ ELSE TRUE]
  /\ UNCHANGED <<now, calls, limVars, procVars, callVars, found_live,
                 prev_exit, stale, got_stale, gpioVars, extVars>>

\* lines 40-41: time.sleep(2) is over; return True
InitWarmedUp(t) ==
  /\ pc[t] = "warmup"
  /\ warmup_left[t] = 0
  /\ pc' = [pc EXCEPT ![t] = AfterInit(t, TRUE)]
  /\ UNCHANGED <<now, calls, limVars, execVars, gpioVars, extVars>>

\* -------------------------------------------- execute_cec_command (46-77)
\* line 68: "CEC bus information" in response or "TRAFFIC:" in response.
\* A marker holds no newline, so it is in the text when it is in a line.
IsMarker(line) ==
  line \in {"CEC bus information", "TRAFFIC: [ 1] << 10:04"}

HasMarker(text) == \E i \in 1..Len(text) : IsMarker(text[i])

\* Variant: the loop gives up one second early.
TimedOutEarly(t) == ~(elapsed[t] < EXEC_TIMEOUT - 1)

\* line 60: the loop condition, false once the bound has passed
TimedOut(t) == ~(elapsed[t] < EXEC_TIMEOUT)

\* A thread calls execute_cec_command(cmd): line 50 calls initialize_cec.
ExecCall(t) ==
  /\ pc[t] \in {"idle", "done"}
  /\ calls < MaxCalls
  /\ calls' = calls + 1
  /\ command' = [command EXCEPT ![t] = CommandOf(t)]
  /\ on_error' = [on_error EXCEPT ![t] = FALSE]
  /\ response' = [response EXCEPT ![t] = <<>>]
  /\ result' = [result EXCEPT ![t] = <<>>]
  /\ exit_by' = [exit_by EXCEPT ![t] = "none"]
  /\ consumed' = [consumed EXCEPT ![t] = <<>>]
  /\ writes' = [writes EXCEPT ![t] = 0]
  /\ attempts' = [attempts EXCEPT ![t] = 0]
  /\ respawns' = [respawns EXCEPT ![t] = 0]
  /\ failed' = [failed EXCEPT ![t] = FALSE]
  /\ found_live' = [found_live EXCEPT ![t] = FALSE]
  /\ prev_exit' = [prev_exit EXCEPT ![t] = exit_by[t]]
  /\ stale' = [stale EXCEPT ![t] = 0]
  /\ got_stale' = [got_stale EXCEPT ![t] = FALSE]
  /\ pc' = [pc EXCEPT ![t] = "init"]
  /\ UNCHANGED <<now, limVars, procVars, warmup_left, elapsed, gpioVars, extVars>>

\* line 51: return "Failed to initialize CEC client"
ExecInitFailed(t) ==
  /\ pc[t] = "init_failed"
  /\ result' = [result EXCEPT ![t] = <<"Failed to initialize CEC client">>]
  /\ exit_by' = [exit_by EXCEPT ![t] = "init_failed"]
  /\ pc' = [pc EXCEPT ![t] = "done"]
  /\ UNCHANGED <<now, calls, limVars, procVars, command, on_error, warmup_left,
                 response, elapsed, consumed, writes, histVars, gpioVars, extVars>>

\* lines 54-59: write the command to the process cec_process names now and
\* flush, then response = "" and start_time = time.time().  The write raises
\* (broken pipe) when that process has exited: lines 73-76 then call
\* initialize_cec() again.
ExecWrite(t) ==
  /\ pc[t] = "write"
  /\ IF cec_process \in alive
       THEN /\ stdin' = [stdin EXCEPT ![cec_process] = Append(@, command[t])]
            /\ writes' = [writes EXCEPT ![t] = @ + 1]
            /\ response' = [response EXCEPT ![t] = <<>>]
            /\ elapsed' = [elapsed EXCEPT ![t] = 0]
            /\ stale' = [stale EXCEPT ![t] = Len(stdout[cec_process])]
            /\ pc' = [pc EXCEPT ![t] = "loop"]
            /\ UNCHANGED on_error
       ELSE /\ on_error' = [on_error EXCEPT ![t] = TRUE]
            /\ pc' = [pc EXCEPT ![t] = "init"]
            /\ UNCHANGED <<stdin, writes, response, elapsed, stale>>
  /\ UNCHANGED <<now, calls, limVars, cec_process, alive, spawned, stdout,
                 written, age, command, warmup_left, result, exit_by, consumed,
                 attempts, respawns, failed, found_live, prev_exit, got_stale,
                 gpioVars, extVars>>

\* line 60: while time.time() - start_time < 8
ExecLoopTest(t) ==
  /\ pc[t] = "loop"
  /\ IF TimedOut(t)
       THEN /\ exit_by' = [exit_by EXCEPT ![t] = "timeout"]
            /\ pc' = [pc EXCEPT ![t] = "return"]
       ELSE /\ pc' = [pc EXCEPT ![t] = "read"]
            /\ UNCHANGED exit_by
  /\ UNCHANGED <<now, calls, limVars, procVars, command, on_error, warmup_left,
                 response, elapsed, result, consumed, writes, histVars, gpioVars, extVars>>

\* lines 61-63 and 68-69: readline() hands over a line of the process
\* cec_process names now; the line is appended and the marker test follows.
ExecReadLine(t) ==
  /\ pc[t] = "read"
  /\ stdout[cec_process] # <<>>
  /\ LET line == Head(stdout[cec_process])
         text == Append(response[t], line)
     IN /\ stdout' = [stdout EXCEPT ![cec_process] = Tail(@)]
        /\ response' = [response EXCEPT ![t] = text]
        /\ consumed' = [consumed EXCEPT ![t] = Append(@, line)]
        /\ got_stale' = [got_stale EXCEPT ![t] = @ \/ stale[t] > 0]
        /\ stale' = [u \in Threads |-> IF stale[u] > 0 THEN stale[u] - 1 ELSE 0]
        /\ IF HasMarker(text)
             THEN /\ exit_by' = [exit_by EXCEPT ![t] = "marker"]
                  /\ pc' = [pc EXCEPT ![t] = "return"]
             ELSE /\ pc' = [pc EXCEPT ![t] = "loop"]
                  /\ UNCHANGED exit_by
  /\ UNCHANGED <<now, calls, limVars, cec_process, alive, spawned, written,
                 stdin, age, command, on_error, warmup_left, elapsed, result,
                 writes, attempts, respawns, failed, found_live, prev_exit,
                 gpioVars, extVars>>

\* lines 61, 64-65: at end of file (the process has exited and the pipe is
\* empty) readline() returns "" and the thread sleeps 0.1 s.  With the
\* process alive and nothing to read, readline() blocks: no step is enabled.
ExecReadEof(t) ==
  /\ pc[t] = "read"
  /\ stdout[cec_process] = <<>>
  /\ cec_process \notin alive
  /\ pc' = [pc EXCEPT ![t] = "sleep"]
  /\ UNCHANGED <<now, calls, limVars, execVars, gpioVars, extVars>>

\* lines 65, 68-69: the sleep is over; the marker test on an unchanged response
ExecSlept(t) ==
  /\ pc[t] = "sleep"
  /\ IF HasMarker(response[t])
       THEN /\ exit_by' = [exit_by EXCEPT ![t] = "marker"]
            /\ pc' = [pc EXCEPT ![t] = "return"]
       ELSE /\ pc' = [pc EXCEPT ![t] = "loop"]
            /\ UNCHANGED exit_by
  /\ UNCHANGED <<now, calls, limVars, procVars, command, on_error, warmup_left,
                 response, elapsed, result, consumed, writes, histVars, gpioVars, extVars>>

\* Variant: a call that ran into the bound returns an empty text.
ReturnedNothingOnTimeout(t) ==
  IF exit_by[t] = "timeout" THEN <<>> ELSE response[t]

\* The value line 72 returns.
Returned(t) == response[t]

\* lines 71-72: return response; the call's locals end with it
ExecReturn(t) ==
  /\ pc[t] = "return"
  /\ result' = [result EXCEPT ![t] = Returned(t)]
  /\ response' = [response EXCEPT ![t] = <<>>]
  /\ elapsed' = [elapsed EXCEPT ![t] = 0]
  /\ stale' = [stale EXCEPT ![t] = 0]
  /\ got_stale' = [got_stale EXCEPT ![t] = FALSE]
  /\ pc' = [pc EXCEPT ![t] = "done"]
  /\ UNCHANGED <<now, calls, limVars, procVars, command, on_error, warmup_left,
                 exit_by, consumed, writes, attempts, respawns, failed,
                 found_live, prev_exit, gpioVars, extVars>>

\* line 77: return f"Error: {str(e)}"
ExecErrorReturn(t) ==
  /\ pc[t] = "error_ret"
  /\ result' = [result EXCEPT ![t] = <<"Error: [Errno 32] Broken pipe">>]
  /\ exit_by' = [exit_by EXCEPT ![t] = "error"]
  /\ pc' = [pc EXCEPT ![t] = "done"]
  /\ UNCHANGED <<now, calls, limVars, procVars, command, on_error, warmup_left,
                 response, elapsed, consumed, writes, histVars, gpioVars, extVars>>

ExecStep(t) ==
  \/ ExecCall(t) \/ InitCheck(t) \/ InitPopen(t) \/ InitPopenFails(t)
  \/ InitWarmedUp(t) \/ ExecInitFailed(t) \/ ExecWrite(t) \/ ExecLoopTest(t)
  \/ ExecReadLine(t) \/ ExecReadEof(t) \/ ExecSlept(t) \/ ExecReturn(t)
  \/ ExecErrorReturn(t)

\* The server's threads calling execute_cec_command on the one connection.
Next ==
  \/ Elapse
  \/ \E p \in Procs : ProcOutput(p) \/ ProcExit(p)
  \/ \E t \in Threads : ExecStep(t)

Spec == Init /\ [][Next]_vars

\* One caller: a call begins only after the one before it has returned.
NextSeq ==
  \/ Elapse
  \/ \E p \in Procs : ProcOutput(p) \/ ProcExit(p)
  \/ \E t \in SeqThreads : ExecStep(t)

SpecSeq == Init /\ [][NextSeq]_vars

\* ------------------------------------------------ gpio_handler.py (148-224)
\* The power-changing commands.
PowerCommands == {"on 0", "standby 0"}

\* Variant: the first previous level is assumed low instead of sampled.
AssumedLow(level) == FALSE

\* lines 197-198: the level that becomes the first previous level
InitialLevel(level) == level

\* lines 208 and 214: the button BECOMES high
PressDetected(is_high, last_high) == is_high /\ ~last_high

\* Variant: the previous level is not refreshed.
NextLastStale(is_high, last_high) == last_high

\* lines 220-221: the previous level kept for the next iteration
NextLast(is_high, last_high) == is_high

\* lines 197-198: last_on_high and last_off_high are read from the pins
FirstSample ==
  /\ gpc = "start"
  /\ \E a, b \in BOOLEAN :
       /\ last_on_high' = InitialLevel(a)
       /\ last_off_high' = InitialLevel(b)
       /\ on_samples' = <<a>>
       /\ off_samples' = <<b>>
  /\ gpc' = "sample"
  /\ UNCHANGED <<now, calls, pc, limVars, execVars, extVars, blocked, on_is_high, off_is_high,
                 on_count, off_count, on_file, off_file, device, on_events,
                 off_events>>

\* lines 204-205: read both pins
Sample ==
  /\ gpc = "sample"
  /\ Len(on_samples) < MaxSamples
  /\ \E a, b \in BOOLEAN :
       /\ on_is_high' = a
       /\ off_is_high' = b
       /\ on_samples' = Append(on_samples, a)
       /\ off_samples' = Append(off_samples, b)
  /\ gpc' = "on_test"
  /\ UNCHANGED <<now, calls, pc, limVars, execVars, extVars, blocked, last_on_high, last_off_high,
                 on_count, off_count, on_file, off_file, device, on_events,
                 off_events>>

\* lines 208-211 and 150-154: on a press of ON, count it and write the
\* timestamp to the power_on trigger file; without a press go on to OFF
OnTest ==
  /\ gpc = "on_test"
  /\ IF PressDetected(on_is_high, last_on_high)
       THEN /\ on_count' = on_count + 1
            /\ on_events' = on_events \cup {Len(on_samples)}
            /\ on_file' = now
            /\ gpc' = "on_backup"
       ELSE /\ gpc' = "off_test"
            /\ UNCHANGED <<on_count, on_events, on_file>>
  /\ UNCHANGED <<now, calls, pc, limVars, execVars, extVars, blocked, last_on_high, last_off_high,
                 on_is_high, off_is_high, off_count, off_file, device,
                 on_samples, off_samples, off_events>>

\* lines 208-211, 150-153 and 165-166: the press is counted, but writing the
\* trigger file raises; trigger_power_on logs it and skips the backup command
OnTriggerFails ==
  /\ gpc = "on_test"
  /\ PressDetected(on_is_high, last_on_high)
  /\ on_count' = on_count + 1
  /\ on_events' = on_events \cup {Len(on_samples)}
  /\ gpc' = "off_test"
  /\ UNCHANGED <<now, calls, pc, limVars, execVars, extVars, blocked, last_on_high, last_off_high,
                 on_is_high, off_is_high, off_count, on_file, off_file, device,
                 on_samples, off_samples, off_events>>

\* lines 156-163: "also execute the cec-client command directly as a backup":
\* a one-shot cec-client is run with 'on 0'.  is_rate_limited is not called on
\* this path.  The command reaches the device, or the run fails or times out,
\* which the bare except swallows.
OnBackup ==
  /\ gpc = "on_backup"
  /\ \/ device' = device \cup {[cmd |-> "on 0", gate |-> FALSE]}
     \/ UNCHANGED device
  /\ blocked' = 0
  /\ gpc' = "off_test"
  /\ UNCHANGED <<now, calls, pc, limVars, execVars, extVars, last_on_high, last_off_high,
                 on_is_high, off_is_high, on_count, off_count, on_file, off_file,
                 on_samples, off_samples, on_events, off_events>>

\* lines 214-217 and 170-174: the same for the OFF button
OffTest ==
  /\ gpc = "off_test"
  /\ IF PressDetected(off_is_high, last_off_high)
       THEN /\ off_count' = off_count + 1
            /\ off_events' = off_events \cup {Len(off_samples)}
            /\ off_file' = now
            /\ gpc' = "off_backup"
       ELSE /\ gpc' = "update"
            /\ UNCHANGED <<off_count, off_events, off_file>>
  /\ UNCHANGED <<now, calls, pc, limVars, execVars, extVars, blocked, last_on_high, last_off_high,
                 on_is_high, off_is_high, on_count, on_file, device,
                 on_samples, off_samples, on_events>>

\* lines 214-217, 170-173 and 185-186
OffTriggerFails ==
  /\ gpc = "off_test"
  /\ PressDetected(off_is_high, last_off_high)
  /\ off_count' = off_count + 1
  /\ off_events' = off_events \cup {Len(off_samples)}
  /\ gpc' = "update"
  /\ UNCHANGED <<now, calls, pc, limVars, execVars, extVars, blocked, last_on_high, last_off_high,
                 on_is_high, off_is_high, on_count, on_file, off_file, device,
                 on_samples, off_samples, on_events>>

\* lines 176-183: the one-shot cec-client with 'standby 0'
OffBackup ==
  /\ gpc = "off_backup"
  /\ \/ device' = device \cup {[cmd |-> "standby 0", gate |-> FALSE]}
     \/ UNCHANGED device
  /\ blocked' = 0
  /\ gpc' = "update"
  /\ UNCHANGED <<now, calls, pc, limVars, execVars, extVars, last_on_high, last_off_high,
                 on_is_high, off_is_high, on_count, off_count, on_file, off_file,
                 on_samples, off_samples, on_events, off_events>>

\* lines 220-221: store the sampled levels
Update ==
  /\ gpc = "update"
  /\ last_on_high' = NextLast(on_is_high, last_on_high)
  /\ last_off_high' = NextLast(off_is_high, last_off_high)
  /\ gpc' = "sleep"
  /\ UNCHANGED <<now, calls, pc, limVars, execVars, extVars, blocked, on_is_high, off_is_high,
                 on_count, off_count, on_file, off_file, device, on_samples,
                 off_samples, on_events, off_events>>

\* What n sampling periods add to the time each pin has kept its level
\* (counted up to 2).
Longer(h, n) == [b \in Buttons |-> IF h[b] + n < 2 THEN h[b] + n ELSE 2]

\* line 224: time.sleep(0.1) returns after one sampling period
Sleep ==
  /\ gpc = "sleep"
  /\ gpc' = "sample"
  /\ stable_for' = Longer(stable_for, 1)
  /\ UNCHANGED <<now, calls, pc, limVars, execVars, last_on_high, last_off_high,
                 on_is_high, off_is_high, on_count, off_count, on_file, off_file,
                 device, on_samples, off_samples, on_events, off_events, blocked,
                 read_errors, pin, rise_at, missed, lockVars, srvVars, hoVars>>

\* lines 204-205 and 226-228, then 271-274: GPIO.input raises inside the loop.
\* The try of line 201 encloses the whole while loop, so the handler of line
\* 226 is reached outside it: the error is logged, gpio_monitoring_loop
\* returns False and start_gpio_handler goes on to cleanup_and_exit.
SampleFails ==
  /\ gpc = "sample"
  /\ read_errors' = read_errors + 1
  /\ gpc' = "exited"
  /\ UNCHANGED <<now, calls, pc, limVars, execVars, last_on_high, last_off_high,
                 on_is_high, off_is_high, on_count, off_count, on_file, off_file,
                 device, on_samples, off_samples, on_events, off_events, blocked,
                 pinVars, lockVars, srvVars, hoVars>>

\* The GPIO handler process from the start of gpio_monitoring_loop.
NextGpio ==
  \/ FirstSample \/ Sample \/ OnTest \/ OnTriggerFails \/ OnBackup
  \/ OffTest \/ OffTriggerFails \/ OffBackup \/ Update \/ Sleep \/ SampleFails

SpecGpio == Init /\ [][NextGpio]_vars

\* ------------------------------------- the polling loop and the pin levels
\* The same loop with the levels at the two inputs as state and time counted
\* in sampling periods: one period passes when time.sleep(0.1) returns,
\* SAMPLES_PER_SECOND periods with each second subprocess.run of a backup
\* command takes, and the loop's other statements take no time.  The buttons are pressed and released
\* cleanly: a level is kept for at least two sampling periods.

\* The press events counted for button b.
Events(b) == IF b = "on" THEN on_events ELSE off_events

\* A button is pressed: its input goes from low to high.  A level that is
\* high when the loop takes its first sample is no transition for the loop.
PinRise(b) ==
  /\ ~pin[b] /\ stable_for[b] >= 2
  /\ pin' = [pin EXCEPT ![b] = TRUE]
  /\ stable_for' = [stable_for EXCEPT ![b] = 0]
  /\ rise_at' = [rise_at EXCEPT ![b] = IF gpc = "start" THEN NoRise
                                        ELSE Len(on_samples)]
  /\ UNCHANGED <<now, calls, pc, limVars, execVars, gpioVars, read_errors,
                 missed, lockVars, srvVars, hoVars>>

\* The button is released.  The pulse is missed when no press was counted at
\* a sample taken after its rise.
PinFall(b) ==
  /\ pin[b] /\ stable_for[b] >= 2
  /\ pin' = [pin EXCEPT ![b] = FALSE]
  /\ stable_for' = [stable_for EXCEPT ![b] = 0]
  /\ rise_at' = [rise_at EXCEPT ![b] = NoRise]
  /\ missed' = IF rise_at[b] # NoRise /\ \A e \in Events(b) : e <= rise_at[b]
                 THEN missed \cup {b} ELSE missed
  /\ UNCHANGED <<now, calls, pc, limVars, execVars, gpioVars, read_errors,
                 lockVars, srvVars, hoVars>>

\* lines 197-198 with the levels read from the pins
FirstSamplePins ==
  /\ FirstSample
  /\ on_samples' = <<pin["on"]>>
  /\ off_samples' = <<pin["off"]>>

\* lines 204-205 with the levels read from the pins
SamplePins ==
  /\ Len(on_samples) < MaxPinSamples
  /\ Sample
  /\ on_is_high' = pin["on"]
  /\ off_is_high' = pin["off"]

\* lines 156-160 and 176-180: subprocess.run(..., timeout=3) has not returned
\* yet and another second passes; the loop is inside trigger_power_on or
\* trigger_power_off and takes no sample.
BlockedSecond ==
  /\ gpc \in {"on_backup", "off_backup"}
  /\ blocked < BACKUP_TIMEOUT
  /\ blocked' = blocked + 1
  /\ stable_for' = Longer(stable_for, SAMPLES_PER_SECOND)
  /\ UNCHANGED <<now, calls, pc, limVars, execVars, gpc, last_on_high,
                 last_off_high, on_is_high, off_is_high, on_count, off_count,
                 on_file, off_file, device, on_samples, off_samples, on_events,
                 off_events, read_errors, pin, rise_at, missed, lockVars,
                 srvVars, hoVars>>

NextGpioPins ==
  \/ FirstSamplePins \/ SamplePins \/ OnTest \/ OnTriggerFails \/ OnBackup
  \/ OffTest \/ OffTriggerFails \/ OffBackup \/ Update \/ Sleep \/ SampleFails
  \/ BlockedSecond
  \/ \E b \in Buttons : PinRise(b) \/ PinFall(b)

SpecGpioPins == Init /\ [][NextGpioPins]_vars

\* ================================================================ properties

\* C1: at most one execute_cec_command call is between writing its command
\* and returning at any instant: a second caller neither writes nor reads
\* until the first call has returned.
InCall(t) == pc[t] \in {"loop", "read", "sleep", "return"}

CexC1 == Cardinality({t \in Threads : InCall(t)}) <= 1

\* C2: no two accepted is_rate_limited calls carry timestamps closer than
\* COMMAND_COOLDOWN, whatever the interleaving of the callers.
CexC2 ==
  \A i, j \in 1..Len(accepted) :
    i # j => \/ accepted[i] - accepted[j] >= COMMAND_COOLDOWN
             \/ accepted[j] - accepted[i] >= COMMAND_COOLDOWN

\* C3: with non-overlapping calls, a call is accepted exactly when no call
\* was accepted before or at least COMMAND_COOLDOWN has passed since the last
\* accepted one, and a rejected call leaves last_command_time as it found it.
ThmC3 ==
  \A t \in SeqThreads :
    pc[t] = "rl_done" =>
      LET n == Len(accepted) IN
      IF limited[t]
        THEN /\ n >= 1
             /\ current_time[t] - accepted[n] < COMMAND_COOLDOWN
             /\ last_command_time = lct_at_call[t]
        ELSE /\ n >= 1
             /\ accepted[n] = current_time[t]
             /\ last_command_time = current_time[t]
             /\ n > 1 => current_time[t] - accepted[n - 1] >= COMMAND_COOLDOWN

\* Accepted, rejected inside the cooldown, accepted again after it.
WitC3 ==
  /\ pc["api"] = "rl_done" /\ ~limited["api"]
  /\ calls = 3 /\ Len(accepted) = 2

\* C4: every power-changing command sent to the CEC device has first passed
\* the rate-limiter gate.
CexC4 == \A s \in device : s.cmd \in PowerCommands => s.gate

\* C5: debouncing - the samples 0,0,1,1,0,1 of the ON pin, taken one
\* sampling period apart, emit one press event, at the first 0 -> 1 only.
CexC5 ==
  (gpc = "update" /\ on_samples = <<FALSE, FALSE, TRUE, TRUE, FALSE, TRUE>>)
    => on_events = {3}

\* C6: a press is emitted only by a sample that is high right after a sample
\* that was low - never on a high -> high repeat or a high -> low transition -
\* so one hold emits at most one press, and every press is counted once; when
\* the loop comes round to sample again, the previous level is the level
\* sampled last.
EdgesOnly(samples, events) ==
  \A i \in events : i >= 2 /\ samples[i] /\ ~samples[i - 1]

ThmC6 ==
  /\ EdgesOnly(on_samples, on_events) /\ on_count = Cardinality(on_events)
  /\ EdgesOnly(off_samples, off_events) /\ off_count = Cardinality(off_events)
  /\ gpc = "sample" => /\ last_on_high = on_samples[Len(on_samples)]
                       /\ last_off_high = off_samples[Len(off_samples)]

\* The ON button held over three samples after a low one: one press.
WitC6 ==
  /\ gpc = "sample"
  /\ on_samples = <<FALSE, TRUE, TRUE, TRUE>> /\ on_events = {2}

\* C7: a button that is high at the first sample emits no press before it has
\* been sampled low: every press has a low sample somewhere before it.
LowBefore(samples, events) ==
  \A i \in events : \E j \in 1..(i - 1) : ~samples[j]

ThmC7 == LowBefore(on_samples, on_events) /\ LowBefore(off_samples, off_events)

\* Held at start-up, released, pressed again: the press comes only then.
WitC7 ==
  /\ gpc = "sample"
  /\ on_samples = <<TRUE, TRUE, FALSE, TRUE>> /\ on_events = {4}

\* C8: once the 8-second bound has passed, a call waiting for output is not
\* blocked: it can go on (and return) whatever the external process does.
CexC8 ==
  \A t \in SeqThreads :
    (pc[t] = "read" /\ TimedOut(t)) => ENABLED (ExecReadLine(t) \/ ExecReadEof(t))

\* C9: a call that ended at the bound returns all it has read, which holds no
\* completion marker, while a call that ended at a marker returns a text that
\* holds one, so the two are told apart; the command was written once.
ThmC9 ==
  \A t \in SeqThreads :
    pc[t] = "done" =>
      /\ exit_by[t] = "timeout" =>
           /\ result[t] = consumed[t]
           /\ ~HasMarker(result[t])
           /\ writes[t] = 1
      /\ exit_by[t] = "marker" => HasMarker(result[t])

\* A call ended at the bound with a partial output.
WitC9 ==
  /\ pc["api"] = "done" /\ exit_by["api"] = "timeout"
  /\ result["api"] = <<"power status: on">>

\* C10: a call leaves the wait loop only with a completion marker in what it
\* has read, all of which it returns, or with at least EXEC_TIMEOUT elapsed.
ThmC10 ==
  \A t \in SeqThreads :
    pc[t] = "return" =>
      \/ HasMarker(consumed[t]) /\ Returned(t) = consumed[t]
      \/ elapsed[t] >= EXEC_TIMEOUT

\* The process never wrote a marker and the call returns at the bound.
WitC10 ==
  /\ pc["api"] = "return" /\ exit_by["api"] = "timeout"
  /\ ~HasMarker(consumed["api"]) /\ elapsed["api"] >= EXEC_TIMEOUT

\* ------------------------------------- gpio_handler.py: the lock file
\* Instances of gpio_handler.py are separate processes, each with its own
\* lock_file_handle.  The file system is the inode the path LOCK_FILE names, if
\* any, and the holder of the flock on each inode.

\* A gpio_handler process is started (by server.start_gpio_handler, by hand or
\* by a service manager) and reaches acquire_lock (line 242).
StartInstance(i) ==
  /\ gh[i] = "absent"
  /\ gh' = [gh EXCEPT ![i] = "open"]
  /\ UNCHANGED <<now, calls, pc, limVars, execVars, gpioVars, read_errors,
                 pinVars, lock_file_handle, lock_file, flock_holder, inodes,
                 srvVars, hoVars>>

\* line 48: open(LOCK_FILE, 'w') opens the inode the path names, or creates
\* one and binds the path to it.
LockOpen(i) ==
  /\ gh[i] = "open"
  /\ IF lock_file = None
       THEN /\ inodes' = inodes + 1
            /\ lock_file' = inodes + 1
            /\ lock_file_handle' = [lock_file_handle EXCEPT ![i] = inodes + 1]
       ELSE /\ lock_file_handle' = [lock_file_handle EXCEPT ![i] = lock_file]
            /\ UNCHANGED <<inodes, lock_file>>
  /\ gh' = [gh EXCEPT ![i] = "flock"]
  /\ UNCHANGED <<now, calls, pc, limVars, execVars, gpioVars, read_errors,
                 pinVars, flock_holder, srvVars, hoVars>>

\* lines 51-58: flock(LOCK_EX | LOCK_NB) on the open file succeeds when nobody
\* holds a lock on its inode, and acquire_lock returns True.  Lines 60-64 and
\* 243-244 otherwise: the handle is closed and the process exits; its
\* release_lock raises at flock on the closed file and removes nothing.
LockFlock(i) ==
  /\ gh[i] = "flock"
  /\ IF flock_holder[lock_file_handle[i]] = None
       THEN /\ flock_holder' = [flock_holder EXCEPT ![lock_file_handle[i]] = i]
            /\ gh' = [gh EXCEPT ![i] = "running"]
            /\ UNCHANGED lock_file_handle
       ELSE /\ lock_file_handle' = [lock_file_handle EXCEPT ![i] = None]
            /\ gh' = [gh EXCEPT ![i] = "exited"]
            /\ UNCHANGED flock_holder
  /\ UNCHANGED <<now, calls, pc, limVars, execVars, gpioVars, read_errors,
                 pinVars, lock_file, inodes, srvVars, hoVars>>

\* lines 92-102 and 79: the running instance is told to stop (SIGTERM, SIGINT,
\* or the loop has ended) and release_lock unlocks the file.
ReleaseUnlock(i) ==
  /\ gh[i] = "running"
  /\ flock_holder' = [flock_holder EXCEPT ![lock_file_handle[i]] = None]
  /\ gh' = [gh EXCEPT ![i] = "close"]
  /\ UNCHANGED <<now, calls, pc, limVars, execVars, gpioVars, read_errors,
                 pinVars, lock_file_handle, lock_file, inodes, srvVars, hoVars>>

\* line 80: lock_file_handle.close()
ReleaseClose(i) ==
  /\ gh[i] = "close"
  /\ lock_file_handle' = [lock_file_handle EXCEPT ![i] = None]
  /\ gh' = [gh EXCEPT ![i] = "remove"]
  /\ UNCHANGED <<now, calls, pc, limVars, execVars, gpioVars, read_errors,
                 pinVars, lock_file, flock_holder, inodes, srvVars, hoVars>>

\* lines 83-86 and 106: os.remove(LOCK_FILE) unlinks whatever inode the path
\* names now (a missing path is ignored), then the process exits.
ReleaseRemove(i) ==
  /\ gh[i] = "remove"
  /\ lock_file' = None
  /\ gh' = [gh EXCEPT ![i] = "exited"]
  /\ UNCHANGED <<now, calls, pc, limVars, execVars, gpioVars, read_errors,
                 pinVars, lock_file_handle, flock_holder, inodes, srvVars,
                 hoVars>>

NextLock ==
  \E i \in Instances :
    \/ StartInstance(i) \/ LockOpen(i) \/ LockFlock(i)
    \/ ReleaseUnlock(i) \/ ReleaseClose(i) \/ ReleaseRemove(i)

SpecLock == Init /\ [][NextLock]_vars

\* ------------------------- server.py: start-up and the gated API requests
\* The main thread runs initialize_hardware and then the web server; a request
\* thread handles POST /api/power/on, /api/power/off and /api/command, which
\* call the gated functions power_on, power_off and send_custom_command of
\* cec_control.  time.time() and the waits of execute_cec_command follow one
\* clock.

\* The commands of the three gated functions (a custom command as sent by the
\* web interface).
GatedCommands == {"on 0", "standby 0", "tx 10:36"}

\* cec_control.py lines 97, 105, 118: the text a rate-limited call returns
RateLimitedText == <<"Rate limited. Please wait before sending another command.">>

\* The threads that call into oled_display.
DisplayThreads == {"main"} \cup SeqThreads

\* Where a thread is in server.py / oled_display.py.
Where(th) == IF th = "main" THEN mpc ELSE hpc[th]

\* One second passes: for time.time() and for the calls under way.
Second ==
  /\ now < MaxTime
  /\ now' = now + 1
  /\ elapsed' = [t \in Threads |->
                  IF Waiting(t) /\ elapsed[t] < EXEC_TIMEOUT
                    THEN elapsed[t] + 1 ELSE elapsed[t]]
  /\ warmup_left' = [t \in Threads |->
                      IF pc[t] = "warmup" /\ warmup_left[t] > 0
                        THEN warmup_left[t] - 1 ELSE warmup_left[t]]
  /\ age' = [p \in Procs |->
              IF p <= spawned /\ age[p] < WARMUP THEN age[p] + 1 ELSE age[p]]
  /\ UNCHANGED <<calls, pc, limVars, cec_process, alive, spawned, stdout,
                 written, stdin, command, on_error, response, result, exit_by,
                 consumed, writes, histVars, gpioVars, extVars>>

\* server.py lines 213-218 (oled_display 39-73): initialize_display succeeds
\* or fails; with a display the main thread goes on to
\* show_status("Starting...", "CEC Test Tool") of line 220.
StartDisplay ==
  /\ mpc = "boot"
  /\ \E ok \in BOOLEAN :
       /\ oled_initialized' = ok
       /\ mpc' = IF ok THEN "show_status" ELSE "start"
  /\ UNCHANGED <<now, calls, pc, limVars, execVars, gpioVars, read_errors,
                 pinVars, lockVars, hpc, display_lock, hoVars>>

\* The position after a "with display_lock:" has been entered: in show_status
\* the call of clear_display (line 100), in clear_display its body.
Inside(where) == IF where = "show_status" THEN "clear_display" ELSE "draw"

\* oled_display.py lines 96 and 77: "with display_lock:" of show_status and of
\* the clear_display it calls.  display_lock is a threading.Lock: acquiring it
\* waits until it is free, whoever holds it.  The statements that follow the
\* inner "with" (lines 78-82, then 101-105 and the release of the lock) have
\* no action here: no behaviour of the program reaches them.
DisplayAcquire(th) ==
  /\ Where(th) \in {"show_status", "clear_display"}
  /\ display_lock = "free"
  /\ display_lock' = th
  /\ IF th = "main"
       THEN mpc' = Inside(mpc) /\ UNCHANGED hpc
       ELSE hpc' = [hpc EXCEPT ![th] = Inside(@)] /\ UNCHANGED mpc
  /\ UNCHANGED <<now, calls, pc, limVars, execVars, gpioVars, read_errors,
                 pinVars, lockVars, oled_initialized, hoVars>>

\* server.py lines 229-241 and 249: without a display the start-up goes on to
\* the GPIO handler, the monitor thread and app.run.
StartServing ==
  /\ mpc = "start"
  /\ mpc' = "serving"
  /\ UNCHANGED <<now, calls, pc, limVars, execVars, gpioVars, read_errors,
                 pinVars, lockVars, hpc, oled_initialized, display_lock,
                 hoVars>>

\* cec_control.py lines 94-96, 102-104, 115-117: thread t enters the gated
\* function for command cmd, which calls is_rate_limited.
EnterGated(t, cmd) ==
  /\ calls < MaxCalls
  /\ calls' = calls + 1
  /\ pc' = [pc EXCEPT ![t] = "rl_time"]
  /\ lct_at_call' = [lct_at_call EXCEPT ![t] = last_command_time]
  /\ command' = [command EXCEPT ![t] = cmd]
  /\ on_error' = [on_error EXCEPT ![t] = FALSE]
  /\ response' = [response EXCEPT ![t] = <<>>]
  /\ result' = [result EXCEPT ![t] = <<>>]
  /\ exit_by' = [exit_by EXCEPT ![t] = "none"]
  /\ consumed' = [consumed EXCEPT ![t] = <<>>]
  /\ writes' = [writes EXCEPT ![t] = 0]
  /\ attempts' = [attempts EXCEPT ![t] = 0]
  /\ respawns' = [respawns EXCEPT ![t] = 0]
  /\ failed' = [failed EXCEPT ![t] = FALSE]
  /\ found_live' = [found_live EXCEPT ![t] = FALSE]
  /\ prev_exit' = [prev_exit EXCEPT ![t] = exit_by[t]]
  /\ stale' = [stale EXCEPT ![t] = 0]
  /\ got_stale' = [got_stale EXCEPT ![t] = FALSE]
  /\ UNCHANGED <<now, last_command_time, current_time, limited, accepted,
                 procVars, warmup_left, elapsed>>

\* server.py lines 73, 83, 102: a request arrives and its handler calls the
\* gated function.
Request(t, cmd) ==
  /\ mpc = "serving" /\ hpc[t] = "idle"
  /\ hpc' = [hpc EXCEPT ![t] = "cec"]
  /\ EnterGated(t, cmd)
  /\ UNCHANGED <<gpioVars, read_errors, pinVars, lockVars, mpc,
                 oled_initialized, display_lock, hoVars>>

\* Variant: the value of is_rate_limited is not looked at.
GateOpen(t) == FALSE

\* cec_control.py lines 96, 104, 117: if is_rate_limited():
Gate(t) == limited[t]

\* lines 97, 105, 118: return "Rate limited. ..."
Rejected(t) ==
  /\ pc[t] = "rl_done" /\ hpc[t] = "cec"
  /\ Gate(t)
  /\ result' = [result EXCEPT ![t] = RateLimitedText]
  /\ exit_by' = [exit_by EXCEPT ![t] = "rate_limited"]
  /\ pc' = [pc EXCEPT ![t] = "done"]
  /\ UNCHANGED <<now, calls, limVars, procVars, command, on_error, warmup_left,
                 response, elapsed, consumed, writes, histVars, gpioVars,
                 extVars>>

\* lines 100, 108, 121: return execute_cec_command(...)
Accepted(t) ==
  /\ pc[t] = "rl_done" /\ hpc[t] = "cec"
  /\ ~Gate(t)
  /\ pc' = [pc EXCEPT ![t] = "init"]
  /\ UNCHANGED <<now, calls, limVars, execVars, gpioVars, extVars>>

\* server.py lines 75-78 and 85-88: the gated function has returned; with a
\* display a power request goes on to show_power_on / show_power_off, that is
\* show_status, and the response is sent otherwise.
Respond(t) ==
  /\ hpc[t] = "cec" /\ pc[t] = "done"
  /\ hpc' = [hpc EXCEPT ![t] =
               IF oled_initialized /\ command[t] \in PowerCommands
                 THEN "show_status" ELSE "idle"]
  /\ UNCHANGED <<now, calls, pc, limVars, execVars, gpioVars, read_errors,
                 pinVars, lockVars, mpc, oled_initialized, display_lock,
                 hoVars>>

\* The steps of a gated function once entered.
GatedStep(t) ==
  \/ RateReadClock(t) \/ RateTest(t) \/ RateAccept(t)
  \/ Rejected(t) \/ Accepted(t)
  \/ InitCheck(t) \/ InitPopen(t) \/ InitPopenFails(t) \/ InitWarmedUp(t)
  \/ ExecInitFailed(t) \/ ExecWrite(t) \/ ExecLoopTest(t) \/ ExecReadLine(t)
  \/ ExecReadEof(t) \/ ExecSlept(t) \/ ExecReturn(t) \/ ExecErrorReturn(t)

ServeStep(t) ==
  \/ \E cmd \in GatedCommands : Request(t, cmd)
  \/ GatedStep(t)
  \/ Respond(t)

NextServer ==
  \/ Second
  \/ \E p \in Procs : ProcOutput(p) \/ ProcExit(p)
  \/ StartDisplay \/ StartServing
  \/ \E th \in DisplayThreads : DisplayAcquire(th)
  \/ \E t \in SeqThreads : ServeStep(t)

SpecServer == Init /\ [][NextServer]_vars

\* --------- the trigger-file handoff: gpio_handler.py 148-174, server.py 106-177
\* The GPIO handler, started by the server, writes the time of a press to the
\* trigger file of the button; the command monitor thread of the server polls
\* the two files.  When a press happens is left open here (the polling loop
\* decides it); a write is "with open(file, 'w') as f: f.write(...)": the open
\* creates or truncates the file, the timestamp is in it once it is closed.

TriggerFile(b) == IF b = "on" THEN on_file ELSE off_file

\* os.path.exists: the file has content, or is open for writing and empty.
FileExists(b) == TriggerFile(b) # None \/ (wfile = b /\ ~detached)

\* The new content of the file of button b; None is also the empty file.
SetFile(b, v) ==
  IF b = "on" THEN on_file' = v /\ UNCHANGED off_file
              ELSE off_file' = v /\ UNCHANGED on_file

gpioRest == <<gpc, last_on_high, last_off_high, on_is_high, off_is_high,
              on_count, off_count, device, on_samples, off_samples, on_events,
              off_events, blocked>>

\* cec_control.power_on / power_off: the command of the button.
ButtonCommand(b) == IF b = "on" THEN "on 0" ELSE "standby 0"

\* gpio_handler.py lines 152 and 172: open(ON_COMMAND_FILE, 'w').
TriggerOpen(b) ==
  /\ mpc = "serving"
  /\ wfile = "none" /\ presses < MaxPresses
  /\ presses' = presses + 1
  /\ wfile' = b /\ detached' = FALSE
  /\ SetFile(b, None)
  /\ unread' = [unread EXCEPT ![b] = FALSE]
  /\ UNCHANGED <<now, calls, pc, limVars, execVars, gpioRest, read_errors,
                 pinVars, lockVars, srvVars, cfile, timestamp, last_processed,
                 lost>>

\* lines 153 and 173: f.write(str(time.time())) and the close of the file.  A
\* file removed since it was opened has no name any more: what is written to
\* it is seen by nobody.
TriggerWrite(b) ==
  /\ wfile = b
  /\ wfile' = "none" /\ detached' = FALSE
  /\ IF detached
       THEN /\ lost' = lost \cup {b}
            /\ UNCHANGED <<on_file, off_file, unread>>
       ELSE /\ SetFile(b, now)
            /\ unread' = [unread EXCEPT ![b] = TRUE]
            /\ UNCHANGED lost
  /\ UNCHANGED <<now, calls, pc, limVars, execVars, gpioRest, read_errors,
                 pinVars, lockVars, srvVars, cfile, timestamp, last_processed,
                 presses>>

\* server.py lines 168-172: the monitor thread, started at line 235, calls
\* check_command_files after its time.sleep(0.1).
MonPoll ==
  /\ mpc = "serving" /\ hpc["monitor"] = "idle"
  /\ hpc' = [hpc EXCEPT !["monitor"] = "exists"]
  /\ cfile' = "on"
  /\ UNCHANGED <<now, calls, pc, limVars, execVars, gpioVars, read_errors,
                 pinVars, lockVars, mpc, oled_initialized, display_lock,
                 timestamp, last_processed, wfile, detached, unread, lost,
                 presses>>

\* check_command_files is done with the file of button b: the ON file is
\* followed by the OFF file (line 133), the OFF file by the return to the loop.
FileDone(b) ==
  /\ hpc' = [hpc EXCEPT !["monitor"] = IF b = "on" THEN "exists" ELSE "idle"]
  /\ cfile' = IF b = "on" THEN "off" ELSE "on"

\* lines 111 and 133: if os.path.exists(...):
MonExists(b) ==
  /\ hpc["monitor"] = "exists" /\ cfile = b
  /\ IF FileExists(b)
       THEN hpc' = [hpc EXCEPT !["monitor"] = "read"] /\ UNCHANGED cfile
       ELSE FileDone(b)
  /\ UNCHANGED <<now, calls, pc, limVars, execVars, gpioVars, read_errors,
                 pinVars, lockVars, mpc, oled_initialized, display_lock,
                 timestamp, last_processed, wfile, detached, unread, lost,
                 presses>>

\* lines 114-115 and 136-137: timestamp = float(f.read().strip()).  float('')
\* of an empty file raises ValueError: the except clause of line 130 logs it
\* and the file is left in place.
MonRead(b) ==
  /\ hpc["monitor"] = "read" /\ cfile = b
  /\ IF TriggerFile(b) = None
       THEN FileDone(b) /\ UNCHANGED <<timestamp, unread>>
       ELSE /\ timestamp' = TriggerFile(b)
            /\ unread' = [unread EXCEPT ![b] = FALSE]
            /\ hpc' = [hpc EXCEPT !["monitor"] = "compare"]
            /\ UNCHANGED cfile
  /\ UNCHANGED <<now, calls, pc, limVars, execVars, gpioVars, read_errors,
                 pinVars, lockVars, mpc, oled_initialized, display_lock,
                 last_processed, wfile, detached, lost, presses>>

\* lines 118-120 and 140-142: the timestamp is newer than the last one
\* processed: cec_control.power_on() / power_off().
MonCall(b) ==
  /\ hpc["monitor"] = "compare" /\ cfile = b
  /\ timestamp > last_processed[b]
  /\ hpc' = [hpc EXCEPT !["monitor"] = "cec"]
  /\ EnterGated("monitor", ButtonCommand(b))
  /\ UNCHANGED <<gpioVars, read_errors, pinVars, lockVars, mpc,
                 oled_initialized, display_lock, hoVars>>

\* lines 118 and 140, test false: on to the os.remove.
MonSkip(b) ==
  /\ hpc["monitor"] = "compare" /\ cfile = b
  /\ timestamp <= last_processed[b]
  /\ hpc' = [hpc EXCEPT !["monitor"] = "remove"]
  /\ UNCHANGED <<now, calls, pc, limVars, execVars, gpioVars, read_errors,
                 pinVars, lockVars, mpc, oled_initialized, display_lock,
                 hoVars>>

\* lines 121-125 and 143-147: the gated function has returned, whatever its
\* result: last_processed[...] = timestamp, then with a display
\* show_power_on / show_power_off, that is show_status.
MonMark(b) ==
  /\ hpc["monitor"] = "cec" /\ pc["monitor"] = "done" /\ cfile = b
  /\ last_processed' = [last_processed EXCEPT ![b] = timestamp]
  /\ hpc' = [hpc EXCEPT !["monitor"] =
               IF oled_initialized THEN "show_status" ELSE "remove"]
  /\ UNCHANGED <<now, calls, pc, limVars, execVars, gpioVars, read_errors,
                 pinVars, lockVars, mpc, oled_initialized, display_lock,
                 cfile, timestamp, wfile, detached, unread, lost, presses>>

\* lines 128 and 150: os.remove(...) removes the name of the file, whatever
\* has been written to it since it was read and whoever has it open.
MonRemove(b) ==
  /\ hpc["monitor"] = "remove" /\ cfile = b
  /\ SetFile(b, None)
  /\ detached' = (detached \/ wfile = b)
  /\ lost' = IF unread[b] THEN lost \cup {b} ELSE lost
  /\ unread' = [unread EXCEPT ![b] = FALSE]
  /\ FileDone(b)
  /\ UNCHANGED <<now, calls, pc, limVars, execVars, gpioRest, read_errors,
                 pinVars, lockVars, mpc, oled_initialized, display_lock,
                 timestamp, last_processed, wfile, presses>>

MonitorStep ==
  \/ MonPoll
  \/ \E b \in Buttons :
       \/ MonExists(b) \/ MonRead(b) \/ MonCall(b) \/ MonSkip(b)
       \/ MonMark(b) \/ MonRemove(b)
  \/ GatedStep("monitor")

NextHandoff ==
  \/ Second
  \/ \E p \in Procs : ProcOutput(p) \/ ProcExit(p)
  \/ StartDisplay \/ StartServing
  \/ DisplayAcquire("main")
  \/ \E b \in Buttons : TriggerOpen(b) \/ TriggerWrite(b)
  \/ MonitorStep

SpecHandoff == Init /\ [][NextHandoff]_vars

\* C11: a call whose write or read raised makes exactly one Popen attempt in
\* its except clause, returns the "Error: ..." text, which is none of the other
\* outcomes, and has written its command at most once, never after the failure.
ThmC11 ==
  \A t \in SeqThreads :
    (pc[t] = "done" /\ on_error[t]) =>
      /\ exit_by[t] = "error"
      /\ result[t] = <<"Error: [Errno 32] Broken pipe">>
      /\ result[t] # <<"Failed to initialize CEC client">>
      /\ respawns[t] = 1
      /\ writes[t] <= 1

\* The write failed on an exited process, the except clause started a new one
\* and the call returned the error text.
WitC11 ==
  /\ pc["api"] = "done" /\ exit_by["api"] = "error"
  /\ respawns["api"] = 1 /\ cec_process \in alive /\ cec_process > 1

\* C12 as stated: the call that follows a call ended by an I/O failure makes
\* exactly one Popen attempt.
CexC12 ==
  \A t \in SeqThreads :
    (pc[t] = "done" /\ prev_exit[t] = "error") => attempts[t] = 1

\* C12, amended: the reconnection attempt is made by the failing call itself;
\* the call that follows makes a Popen attempt before its write exactly when
\* the test of line 33 finds no live process (none when the reconnection left a
\* live process, one when not), and at most one more in its own except clause.
ThmC12 ==
  \A t \in SeqThreads :
    (pc[t] = "done" /\ prev_exit[t] = "error") =>
      /\ attempts[t] - respawns[t] = (IF found_live[t] THEN 0 ELSE 1)
      /\ respawns[t] <= 1
      /\ respawns[t] = 1 <=> exit_by[t] = "error"

\* The call after a failed one found the process of the reconnection alive,
\* started nothing and returned at a marker.
WitC12 ==
  /\ pc["api"] = "done" /\ prev_exit["api"] = "error"
  /\ found_live["api"] /\ attempts["api"] = 0 /\ exit_by["api"] = "marker"

\* C13: a call whose Popen at line 50 raised returns "Failed to initialize CEC
\* client" as a value, has written nothing and leaves no live connection; the
\* call that follows it makes a Popen attempt again.
ThmC13 ==
  \A t \in SeqThreads :
    /\ (pc[t] = "done" /\ failed[t]) =>
         /\ exit_by[t] = "init_failed"
         /\ result[t] = <<"Failed to initialize CEC client">>
         /\ writes[t] = 0
         /\ NoLiveProcess
    /\ (prev_exit[t] = "init_failed" /\ pc[t] \notin {"idle", "init", "popen"}) =>
         attempts[t] >= 1

\* After a call that could not start the process, the next call started it.
WitC13 ==
  /\ pc["api"] = "done" /\ prev_exit["api"] = "init_failed"
  /\ attempts["api"] = 1 /\ cec_process \in alive

\* C19: at most one cec-client process started by initialize_cec is alive at
\* any time: a process is started only when no live one exists, also when two
\* threads run initialize_cec at once while disconnected.
CexC19 == Cardinality(alive) <= 1

\* C20: a process younger than the WARMUP delay has been written no command,
\* whichever thread writes.
CexC20 == \A p \in Procs : age[p] < WARMUP => stdin[p] = <<>>

\* C15: after a read of a pin has raised inside the monitoring loop, the loop
\* is still running: it is at one of its statements, about to take or
\* evaluate a sample.
CexC15 ==
  read_errors > 0 =>
    gpc \in {"sample", "on_test", "on_backup", "off_test", "off_backup",
             "update", "sleep"}

\* C16: no low-to-high transition at an input, kept high for more than one
\* sampling period, ends without a press counted for it, also when it began
\* while a backup command was running.
CexC16 == missed = {}

\* C18: at no time are two gpio_handler instances both past a successful
\* acquire_lock and running, whatever the order in which instances start and
\* exit.
CexC18 == Cardinality({i \in Instances : gh[i] = "running"}) <= 1

\* C14: a gated call the limiter rejected returns the rate-limited text, which
\* is none of the texts of a failed execution, and has neither written to the
\* process nor tested or started the connection.
ThmC14 ==
  \A t \in SeqThreads :
    (pc[t] = "done" /\ limited[t]) =>
      /\ exit_by[t] = "rate_limited"
      /\ result[t] = RateLimitedText
      /\ result[t] # <<"Failed to initialize CEC client">>
      /\ result[t] # <<"Error: [Errno 32] Broken pipe">>
      /\ writes[t] = 0
      /\ attempts[t] = 0 /\ ~found_live[t] /\ ~failed[t] /\ ~on_error[t]

\* The second request came within the cooldown of the first, which had written
\* its command, and returned the rate-limited text.
WitC14 ==
  /\ pc["api"] = "done" /\ exit_by["api"] = "rate_limited" /\ calls = 2
  /\ \E p \in Procs : Len(stdin[p]) = 1

\* C17: no thread waits at a "with display_lock:" for a lock it holds itself;
\* such a call of show_status or cleanup can never return.
CexC17 ==
  \A th \in DisplayThreads :
    Where(th) \in {"show_status", "clear_display"} => display_lock # th

\* C21: a call that follows a call ended at its timeout, on the same live
\* process, reads no line that was in the pipe before it wrote its command.
CexC21 ==
  \A t \in SeqThreads :
    (prev_exit[t] = "timeout" /\ found_live[t]) => ~got_stale[t]

\* C22: no timestamp written to a trigger file goes unread: none is in the
\* file when check_command_files removes it, and none is written to a file
\* that was removed while the handler had it open.
CexC22 == lost = {}

====
